---- MODULE Spec2Model ----
(***************************************************************************)
(* State machine of lib/sonic_state.py: the component registry, the        *)
(* filesystem and archive adapters, the special-case handlers and the      *)
(* four StateManager operations (backup, restore, migrate, validate).      *)
(*                                                                         *)
(* Byte strings are sequences of one-character strings.  A filesystem      *)
(* root is a map from file paths to nodes plus the set of directories      *)
(* that exist.  A tar blob is the set of its member files (relative name,  *)
(* content, mode) plus its member directories.                             *)
(***************************************************************************)
EXTENDS Integers, Sequences, FiniteSets, TLC

\* ---------------------------------------------------------------- bounds
\* Longest credential file, in lines, drawn by InitShadow.
MaxShadowLines == 2

\* ------------------------------------------------------ program constants
Mode600 == 384     \* 0o600
Mode644 == 420     \* 0o644
UmaskMode == 420   \* mode of a file created by write_bytes (umask 022)
NoMode == 0        \* mode=None

HasBytesIO == FALSE  \* the tempfile module has no attribute BytesIO

\* ------------------------------------------------------------- registry
SONIC_STATE_COMPONENTS ==
  << [name |-> "sonic_config", path |-> "/etc/sonic/config_db.json",
      component_type |-> "file", required |-> TRUE, special_handler |-> "none"],
     [name |-> "user_data", path |-> "/home",
      component_type |-> "directory", required |-> TRUE,
      special_handler |-> "home_directories"],
     [name |-> "ssh_infrastructure", path |-> "/etc/ssh",
      component_type |-> "directory", required |-> TRUE,
      special_handler |-> "ssh_config"],
     [name |-> "system_mounts", path |-> "/etc/fstab",
      component_type |-> "file", required |-> TRUE, special_handler |-> "none"],
     [name |-> "fan_control", path |-> "/etc/sonic/custom-fan/fancontrol",
      component_type |-> "file", required |-> FALSE, special_handler |-> "none"],
     [name |-> "admin_auth", path |-> "/etc/shadow",
      component_type |-> "file", required |-> TRUE,
      special_handler |-> "admin_shadow"] >>

NumComponents == Len(SONIC_STATE_COMPONENTS)

\* ---------------------------------------------------------------- paths
KeyTypes == << "rsa", "ecdsa", "ed25519" >>
KeySuffixes == << "", ".pub" >>

KeyPath(base_path, key_type, suffix) ==
  base_path \o "/ssh_host_" \o key_type \o "_key" \o suffix

\* The (key_type, suffix) pairs in the order of the nested loops.
KeyLoop ==
  [ i \in 1..(Len(KeyTypes) * Len(KeySuffixes)) |->
      [ key_type |-> KeyTypes[((i - 1) \div Len(KeySuffixes)) + 1],
        suffix |-> KeySuffixes[((i - 1) % Len(KeySuffixes)) + 1] ] ]

KeyPaths == { KeyPath("/etc/ssh", KeyLoop[i].key_type, KeyLoop[i].suffix) :
              i \in 1..Len(KeyLoop) }

ShadowPath == "/etc/shadow"
MetaShadow == "meta/shadow.admin"

FilePaths ==
  { "/etc/sonic/config_db.json", "/home/u/f", "/etc/ssh/sshd_config",
    "/etc/ssh/sshd_config.d/a.conf", "/etc/fstab",
    "/etc/sonic/custom-fan/fancontrol", ShadowPath, MetaShadow } \cup KeyPaths

DirPaths == { "/home", "/etc/ssh", "/etc/ssh/sshd_config.d" }

\* Names a tar member can have relative to the archived directory.
RelFiles ==
  { "u/f", "a.conf", "sshd_config", "sshd_config.d/a.conf" } \cup
  { "ssh_host_" \o KeyLoop[i].key_type \o "_key" \o KeyLoop[i].suffix :
    i \in 1..Len(KeyLoop) }
RelDirs == { "sshd_config.d" }

\* full_path / name
Join(dir, rel) == dir \o "/" \o rel

FilesUnder(dir) == { r \in RelFiles : Join(dir, r) \in FilePaths }
DirsUnder(dir) == { r \in RelDirs : Join(dir, r) \in DirPaths }

\* The directories of DirPaths that mkdir(parents=True) of p's parent creates.
Parents(p) ==
  { d \in DirPaths : \/ \E r \in RelFiles : Join(d, r) = p
                     \/ \E r \in RelDirs : Join(d, r) = p }

\* ---------------------------------------------------------------- values
AbsentNode == [present |-> FALSE, data |-> <<>>, mode |-> 0, readable |-> TRUE]
FileNode(d, m) == [present |-> TRUE, data |-> d, mode |-> m, readable |-> TRUE]

EmptyRoot == [files |-> [p \in FilePaths |-> AbsentNode], dirs |-> {}]

NoneBlob == [kind |-> "none", bytes |-> <<>>, files |-> {}, dirs |-> {}]
BytesBlob(b) == [kind |-> "bytes", bytes |-> b, files |-> {}, dirs |-> {}]
TarBlob(fs, ds) == [kind |-> "tar", bytes |-> <<>>, files |-> fs, dirs |-> ds]

\* Python truthiness of an Optional[bytes]: None and b'' are false.  A tar
\* archive of an existing directory is never empty.
Truthy(blob) ==
  \/ blob.kind = "tar"
  \/ blob.kind = "bytes" /\ Len(blob.bytes) > 0

\* Logical paths an archive adapter's entry map can be keyed by.
ArchPaths == (FilePaths \ {"/home/u/f", "/etc/ssh/sshd_config.d/a.conf"}) \cup DirPaths

EmptyData == [p \in ArchPaths |-> NoneBlob]

\* An adapter value.  kind "fs": FilesystemAdapter over root, wfail being the
\* paths under the root whose write raises OSError.  kind "bk": BackupAdapter
\* with its entry map.  raised is the exception in flight, "none" if none.
FsAdapter(root, wfail, dry_run) ==
  [kind |-> "fs", root |-> root, data |-> EmptyData, wfail |-> wfail,
   dry_run |-> dry_run, raised |-> "none"]
BkAdapter(data, dry_run) ==
  [kind |-> "bk", root |-> EmptyRoot, data |-> data, wfail |-> {},
   dry_run |-> dry_run, raised |-> "none"]

\* ------------------------------------------------------ FilesystemAdapter
FsExists(root, path) ==
  IF path \in DirPaths THEN path \in root.dirs
  ELSE path \in FilePaths /\ root.files[path].present

FsReadFile(root, path) ==
  IF path \notin FilePaths \/ ~root.files[path].present THEN NoneBlob
  ELSE IF ~root.files[path].readable THEN NoneBlob
  ELSE BytesBlob(root.files[path].data)

FsReadDirectory(root, path) ==
  IF path \notin root.dirs THEN NoneBlob
  ELSE TarBlob({ [name |-> r, data |-> root.files[Join(path, r)].data,
                  mode |-> root.files[Join(path, r)].mode] :
                 r \in { q \in FilesUnder(path) : root.files[Join(path, q)].present } },
               { r \in DirsUnder(path) : Join(path, r) \in root.dirs })

\* FsWriteFile without the chmod after the write.
FsWriteFile_NoChmod(a, path, blob, mode) ==
  IF a.raised # "none" THEN a
  ELSE IF a.dry_run THEN a
  ELSE IF path \in a.wfail THEN [a EXCEPT !.raised = "OSError"]
  ELSE [a EXCEPT
          !.root.dirs = @ \cup Parents(path),
          !.root.files[path] =
             FileNode(blob.bytes, IF @.present THEN @.mode ELSE UmaskMode)]

FsWriteFile(a, path, blob, mode) ==
  IF a.raised # "none" THEN a
  ELSE IF a.dry_run THEN a
  ELSE IF path \in a.wfail THEN [a EXCEPT !.raised = "OSError"]
  ELSE [a EXCEPT
          !.root.dirs = @ \cup Parents(path),
          !.root.files[path] =
             FileNode(blob.bytes,
                      IF mode # NoMode THEN mode
                      ELSE IF @.present THEN @.mode ELSE UmaskMode)]

FsWriteDirectory(a, path, blob) ==
  IF a.raised # "none" THEN a
  ELSE IF a.dry_run THEN a
  ELSE IF path \in a.wfail THEN [a EXCEPT !.raised = "OSError"]
  ELSE [a EXCEPT
          !.root.dirs = @ \cup {path} \cup Parents(path)
                          \cup { Join(path, r) : r \in blob.dirs },
          !.root.files =
             [p \in FilePaths |->
                IF \E e \in blob.files : Join(path, e.name) = p
                THEN LET m == CHOOSE e \in blob.files : Join(path, e.name) = p
                     IN FileNode(m.data, m.mode)
                ELSE @[p]]]

\* ---------------------------------------------------------- BackupAdapter
BkExists(data, path) == path \in ArchPaths /\ data[path].kind # "none"

BkRead(data, path) == IF path \in ArchPaths THEN data[path] ELSE NoneBlob

BkWrite(a, path, blob) ==
  IF a.raised # "none" THEN a ELSE [a EXCEPT !.data[path] = blob]

\* ----------------------------------------------- StateAdapter (dispatch)
Exists(a, path) ==
  IF a.kind = "fs" THEN FsExists(a.root, path) ELSE BkExists(a.data, path)
ReadFile(a, path) ==
  IF a.kind = "fs" THEN FsReadFile(a.root, path) ELSE BkRead(a.data, path)
ReadDirectory(a, path) ==
  IF a.kind = "fs" THEN FsReadDirectory(a.root, path) ELSE BkRead(a.data, path)
WriteFile(a, path, blob, mode) ==
  IF a.kind = "fs" THEN FsWriteFile(a, path, blob, mode) ELSE BkWrite(a, path, blob)
WriteDirectory(a, path, blob) ==
  IF a.kind = "fs" THEN FsWriteDirectory(a, path, blob) ELSE BkWrite(a, path, blob)

\* ------------------------------------------------------------ text helpers
LineBreaks == { "\n", "\r" }

\* str.splitlines(): break at \n, \r and \r\n; no empty last line.
RECURSIVE SplitFrom(_, _, _)
SplitFrom(s, i, cur) ==
  IF i > Len(s) THEN (IF cur = <<>> THEN <<>> ELSE <<cur>>)
  ELSE IF s[i] = "\r" /\ i < Len(s) /\ s[i + 1] = "\n"
    THEN <<cur>> \o SplitFrom(s, i + 2, <<>>)
  ELSE IF s[i] \in LineBreaks THEN <<cur>> \o SplitFrom(s, i + 1, <<>>)
  ELSE SplitFrom(s, i + 1, Append(cur, s[i]))

SplitLines(s) == SplitFrom(s, 1, <<>>)

\* str.startswith(prefix)
StartsWith(line, prefix) ==
  Len(line) >= Len(prefix) /\ SubSeq(line, 1, Len(prefix)) = prefix

AdminPrefix == << "a", "d", "m", "i", "n", ":" >>

\* IsAdminLine matching the account name without its colon.
IsAdminLine_NoColon(line) == StartsWith(line, SubSeq(AdminPrefix, 1, Len(AdminPrefix) - 1))

IsAdminLine(line) == StartsWith(line, AdminPrefix)

\* ------------------------------------------------------- special handlers
\* Each handler yields the destination adapter after its writes and the
\* value it returns (handled).

HandleAdminShadow(component, source, dest) ==
  LET shadow_data == ReadFile(source, component.path)
      lines == SplitLines(shadow_data.bytes)
      admin_lines == SelectSeq(lines, IsAdminLine)
  IN IF Truthy(shadow_data) /\ admin_lines # <<>>
       THEN [dest |-> WriteFile(dest, MetaShadow, BytesBlob(admin_lines[1]), NoMode),
             handled |-> TRUE]
       ELSE [dest |-> dest, handled |-> FALSE]

RECURSIVE CopyHostKeys(_, _, _, _)
CopyHostKeys(source, dest, base_path, i) ==
  IF i > Len(KeyLoop) THEN dest
  ELSE LET key_path == KeyPath(base_path, KeyLoop[i].key_type, KeyLoop[i].suffix)
           key_data == ReadFile(source, key_path)
           d == IF Truthy(key_data)
                  THEN WriteFile(dest, key_path, key_data,
                                 IF KeyLoop[i].suffix = "" THEN Mode600 ELSE Mode644)
                  ELSE dest
       IN CopyHostKeys(source, d, base_path, i + 1)

HandleSshConfig(component, source, dest) ==
  LET base_path == component.path
      config_data == ReadFile(source, base_path \o "/sshd_config")
      d1 == IF Truthy(config_data)
              THEN WriteFile(dest, base_path \o "/sshd_config", config_data, NoMode)
              ELSE dest
      config_d_data == ReadDirectory(source, base_path \o "/sshd_config.d")
      d2 == IF Truthy(config_d_data)
              THEN WriteDirectory(d1, base_path \o "/sshd_config.d", config_d_data)
              ELSE d1
  IN [dest |-> CopyHostKeys(source, d2, base_path, 1), handled |-> TRUE]

HandleHomeDirectories(component, source, dest) ==
  LET home_data == ReadDirectory(source, component.path)
  IN IF Truthy(home_data)
       THEN [dest |-> WriteDirectory(dest, component.path, home_data), handled |-> TRUE]
       ELSE [dest |-> dest, handled |-> FALSE]

HandleSpecialComponent(component, source, dest) ==
  IF component.special_handler = "admin_shadow"
    THEN HandleAdminShadow(component, source, dest)
  ELSE IF component.special_handler = "ssh_config"
    THEN HandleSshConfig(component, source, dest)
  ELSE IF component.special_handler = "home_directories"
    THEN HandleHomeDirectories(component, source, dest)
  ELSE [dest |-> dest, handled |-> FALSE]

\* -------------------------------------------------- per-component bodies
\* One iteration of each operation's loop over the registry: the adapters
\* and success flag before it, the destination and flag after it.

\* StandardCopy writing whatever was read, without the `if data:` guard.
StandardCopy_NoGuard(component, source, dest, success) ==
  IF component.component_type = "file"
    THEN [dest |-> WriteFile(dest, component.path, ReadFile(source, component.path), NoMode),
          success |-> success]
  ELSE IF component.component_type = "directory"
    THEN [dest |-> WriteDirectory(dest, component.path,
                                  ReadDirectory(source, component.path)),
          success |-> success]
  ELSE [dest |-> dest, success |-> success]

StandardCopy(component, source, dest, success) ==
  IF component.component_type = "file"
    THEN LET data == ReadFile(source, component.path)
         IN IF Truthy(data)
              THEN [dest |-> WriteFile(dest, component.path, data, NoMode),
                    success |-> success]
              ELSE [dest |-> dest, success |-> success /\ ~component.required]
  ELSE IF component.component_type = "directory"
    THEN LET data == ReadDirectory(source, component.path)
         IN IF Truthy(data)
              THEN [dest |-> WriteDirectory(dest, component.path, data),
                    success |-> success]
              ELSE [dest |-> dest, success |-> success /\ ~component.required]
  ELSE [dest |-> dest, success |-> success]

BackupComponent(component, source, backup, success) ==
  LET h == IF component.special_handler # "none"
             THEN HandleSpecialComponent(component, source, backup)
             ELSE [dest |-> backup, handled |-> FALSE]
      s == StandardCopy(component, source, h.dest, success)
  IN IF h.handled
       THEN [dest |-> h.dest, success |-> success, handled |-> TRUE]
       ELSE [dest |-> s.dest, success |-> s.success, handled |-> FALSE]

MigrateComponent(component, source, target, success) ==
  LET h == IF component.special_handler # "none"
             THEN HandleSpecialComponent(component, source, target)
             ELSE [dest |-> target, handled |-> FALSE]
      s == StandardCopy(component, source, h.dest, success)
  IN IF h.handled
       THEN [dest |-> h.dest, success |-> success, handled |-> TRUE]
       ELSE [dest |-> s.dest, success |-> s.success, handled |-> FALSE]

\* RestoreComponent without the continue of the admin_shadow branch.
RestoreComponent_NoSkip(component, backup, target, success) ==
  LET s == StandardCopy(component, backup, target, success)
  IN [dest |-> s.dest, success |-> s.success, handled |-> FALSE]

RestoreComponent(component, backup, target, success) ==
  IF component.special_handler = "admin_shadow"
    THEN [dest |-> target, success |-> success, handled |-> FALSE]
    ELSE LET s == StandardCopy(component, backup, target, success)
         IN [dest |-> s.dest, success |-> s.success, handled |-> FALSE]

\* ValidateComponent probing a file by reading it instead of by existence.
ValidateComponent_ByContent(component, source, success) ==
  IF component.component_type \in {"file", "directory"}
    THEN IF (IF component.component_type = "file"
               THEN Truthy(ReadFile(source, component.path))
               ELSE Exists(source, component.path))
           THEN success
         ELSE IF component.required THEN FALSE
         ELSE success
    ELSE success

ValidateComponent(component, source, success) ==
  IF component.component_type \in {"file", "directory"}
    THEN IF Exists(source, component.path) THEN success
         ELSE IF component.required THEN FALSE
         ELSE success
    ELSE success

\* ------------------------------------------------------- archive on disk
DataName(path) == "data/" \o path
MemberNames == { DataName(p) : p \in ArchPaths }
PathOf(name) == CHOOSE p \in ArchPaths : DataName(p) = name

NoMembers == [n \in MemberNames |-> NoneBlob]
AbsentArchive ==
  [exists |-> FALSE, complete |-> FALSE, components |-> {}, members |-> NoMembers]
\* What tarfile.open(path, 'w:gz') leaves when the block is left by an
\* exception before any member is added: a gzip header with no tar in it.
TruncatedArchive ==
  [exists |-> TRUE, complete |-> FALSE, components |-> {}, members |-> NoMembers]

\* BackupAdapter.__init__ in mode 'r' followed by _load_backup.
LoadBackup(file) ==
  IF ~file.exists THEN EmptyData
  ELSE IF ~file.complete THEN EmptyData
  ELSE [p \in ArchPaths |-> file.members[DataName(p)]]

\* BackupAdapter._metadata after construction in mode 'r': the components
\* list of the manifest, empty when nothing was loaded.
LoadManifest(file) ==
  IF ~file.exists THEN {}
  ELSE IF ~file.complete THEN {}
  ELSE file.components

\* save_backup: the file after it and the exception it leaves, if any.
SaveBackup(a, file) ==
  IF a.dry_run THEN [file |-> file, raised |-> "none"]
  ELSE IF HasBytesIO
    THEN [file |-> [exists |-> TRUE, complete |-> TRUE,
                    components |-> { p \in ArchPaths : a.data[p].kind # "none" },
                    members |-> [n \in MemberNames |-> a.data[PathOf(n)]]],
          raised |-> "none"]
  ELSE [file |-> TruncatedArchive, raised |-> "AttributeError"]

\* ----------------------------------------------------- whole operations
\* The loop body of operation opname for one component.
LoopBody(opname, component, source, dest, success) ==
  IF opname = "backup" THEN BackupComponent(component, source, dest, success)
  ELSE IF opname = "restore" THEN RestoreComponent(component, source, dest, success)
  ELSE IF opname = "migrate" THEN MigrateComponent(component, source, dest, success)
  ELSE [dest |-> dest, success |-> ValidateComponent(component, source, success),
        handled |-> FALSE]

\* The adapters an operation constructs.
SourceAdapter(opname, dry, srcRoot, file) ==
  IF opname = "restore" THEN BkAdapter(LoadBackup(file), dry)
  ELSE FsAdapter(srcRoot, {}, dry)
DestAdapter(opname, dry, tgtRoot, wf) ==
  IF opname = "backup" THEN BkAdapter(EmptyData, dry)
  ELSE FsAdapter(tgtRoot, wf, dry)

\* The loop from component i on, stopping at an exception.
RECURSIVE RunFrom(_, _, _, _, _)
RunFrom(opname, i, source, dest, success) ==
  IF i > NumComponents \/ dest.raised # "none"
    THEN [dest |-> dest, success |-> success]
    ELSE LET r == LoopBody(opname, SONIC_STATE_COMPONENTS[i], source, dest, success)
         IN RunFrom(opname, i + 1, source, r.dest, r.success)

\* What a call of the operation yields: the exception it raises ("none" if
\* it returns) and the boolean it computed.
Outcome(opname, dry, srcRoot, tgtRoot, wf, file) ==
  LET r == RunFrom(opname, 1, SourceAdapter(opname, dry, srcRoot, file),
                   DestAdapter(opname, dry, tgtRoot, wf), TRUE)
      sv == IF opname = "backup" /\ r.dest.raised = "none"
              THEN SaveBackup(r.dest, file)
              ELSE [file |-> file, raised |-> r.dest.raised]
  IN [raised |-> sv.raised, success |-> r.success]

\* ------------------------------------------------------------ input sets
Txt_cfg == << "c", "f", "g" >>
Txt_old == << "o", "l", "d" >>
Txt_fs == << "f", "s" >>
Txt_key == << "k" >>
Txt_pub == << "p" >>
\* modes found on input files: 0o640 and 0o444
Mode640 == Mode600 + 32
Mode444 == Mode644 - 128

LRoot == << "r", "o", "o", "t", ":", "x" >>
LAdministrator ==
  << "a", "d", "m", "i", "n", "i", "s", "t", "r", "a", "t", "o", "r", ":", "y" >>
LAdmin == << "a", "d", "m", "i", "n", ":", "z" >>
LAdmin2 == << "a", "d", "m", "i", "n", ":", "w" >>
ShadowLineSet == { LRoot, LAdministrator, LAdmin, LAdmin2 }

RECURSIVE JoinLines(_, _)
JoinLines(lines, eol) ==
  IF lines = <<>> THEN <<>>
  ELSE lines[1] \o eol \o JoinLines(Tail(lines), eol)

LineSeqs == UNION { [1..n -> ShadowLineSet] : n \in 0..MaxShadowLines }
ShadowTexts ==
  { JoinLines(ls, eol) : ls \in LineSeqs, eol \in { << "\n" >>, << "\r", "\n" >> } }

SshFilePaths == KeyPaths \cup { "/etc/ssh/sshd_config", "/etc/ssh/sshd_config.d/a.conf" }
IsPub(p) == \E i \in 1..Len(KeyLoop) :
              KeyLoop[i].suffix = ".pub" /\ p = KeyPath("/etc/ssh", KeyLoop[i].key_type, ".pub")

SshNone == [files |-> [p \in SshFilePaths |-> AbsentNode], dirs |-> {}]
SshEmptyDir == [files |-> [p \in SshFilePaths |-> AbsentNode], dirs |-> {"/etc/ssh"}]
\* every item present; the key files carry the wrong modes
SshFull ==
  [files |-> [p \in SshFilePaths |->
                IF p \in KeyPaths
                  THEN IF IsPub(p) THEN FileNode(Txt_pub, Mode600)
                       ELSE FileNode(Txt_key, Mode644)
                  ELSE FileNode(Txt_cfg, Mode644)],
   dirs |-> {"/etc/ssh", "/etc/ssh/sshd_config.d"}]
\* the daemon configuration, the rsa pair and a zero-length ecdsa private key
SshPartial ==
  [files |-> [p \in SshFilePaths |->
                IF p = "/etc/ssh/sshd_config" THEN FileNode(Txt_cfg, Mode644)
                ELSE IF p = KeyPath("/etc/ssh", "rsa", "") THEN FileNode(Txt_key, Mode444)
                ELSE IF p = KeyPath("/etc/ssh", "rsa", ".pub") THEN FileNode(Txt_pub, Mode644)
                ELSE IF p = KeyPath("/etc/ssh", "ecdsa", "") THEN FileNode(<<>>, Mode600)
                ELSE AbsentNode],
   dirs |-> {"/etc/ssh"}]
SshChoices == { SshNone, SshEmptyDir, SshFull, SshPartial }

Unreadable(node) == [node EXCEPT !.readable = FALSE]

MakeRoot(cfg, home, ssh, fstab, fan, shadow) ==
  [files |-> [p \in FilePaths |->
                IF p = "/etc/sonic/config_db.json" THEN cfg
                ELSE IF p = "/home/u/f"
                  THEN (IF home THEN FileNode(<< "x" >>, Mode644) ELSE AbsentNode)
                ELSE IF p = "/etc/fstab" THEN fstab
                ELSE IF p = "/etc/sonic/custom-fan/fancontrol" THEN fan
                ELSE IF p = ShadowPath THEN shadow
                ELSE IF p \in SshFilePaths THEN ssh.files[p]
                ELSE AbsentNode],
   dirs |-> (IF home THEN {"/home"} ELSE {}) \cup ssh.dirs]

SourceRoots ==
  { MakeRoot(cfg, home, ssh, fstab, fan, shadow) :
      cfg \in { AbsentNode, FileNode(Txt_cfg, Mode644) },
      home \in BOOLEAN,
      ssh \in SshChoices,
      fstab \in { AbsentNode, FileNode(<<>>, Mode644), FileNode(Txt_fs, Mode644),
                  Unreadable(FileNode(Txt_fs, Mode644)) },
      fan \in { AbsentNode, FileNode(Txt_fs, Mode644) },
      shadow \in { AbsentNode,
                   FileNode(JoinLines(<< LRoot, LAdministrator >>, << "\n" >>), Mode640),
                   FileNode(JoinLines(<< LRoot, LAdmin, LAdministrator >>, << "\n" >>),
                            Mode640) } }

\* A target that already holds a credential file, a host key and a home file.
PopulatedTarget ==
  [files |-> [p \in FilePaths |->
                IF p = ShadowPath
                  THEN FileNode(JoinLines(<< LAdmin2 >>, << "\n" >>), Mode640)
                ELSE IF p = KeyPath("/etc/ssh", "rsa", "") THEN FileNode(Txt_old, Mode444)
                ELSE IF p = "/home/u/f" THEN FileNode(Txt_old, Mode644)
                ELSE AbsentNode],
   dirs |-> {"/home", "/etc/ssh"}]
TargetRoots == { EmptyRoot, PopulatedTarget }

WriteFailures == { {}, {"/etc/fstab"} }

\* An archive made elsewhere: every registry path, the credential file and
\* the extracted admin line included.  Entries at directory paths are tar
\* archives, entries at file paths are plain bytes.
ForeignArchive ==
  LET d == [p \in ArchPaths |->
              IF p \in {"/etc/sonic/config_db.json", "/etc/fstab"} THEN BytesBlob(Txt_old)
              ELSE IF p = "/home"
                THEN TarBlob({[name |-> "u/f", data |-> Txt_fs, mode |-> Mode600]}, {})
              ELSE IF p = "/etc/ssh"
                THEN TarBlob({[name |-> "sshd_config", data |-> Txt_old, mode |-> Mode644],
                              [name |-> "ssh_host_rsa_key", data |-> Txt_key,
                               mode |-> Mode644]}, {"sshd_config.d"})
              ELSE IF p = ShadowPath
                THEN BytesBlob(JoinLines(<< LRoot >>, << "\n" >>))
              ELSE IF p = MetaShadow THEN BytesBlob(LAdmin)
              ELSE NoneBlob]
  IN [exists |-> TRUE, complete |-> TRUE,
      components |-> { p \in ArchPaths : d[p].kind # "none" },
      members |-> [n \in MemberNames |-> d[PathOf(n)]]]
\* An archive that holds the home tree and a credential file, nothing else.
PartialArchive ==
  [exists |-> TRUE, complete |-> TRUE, components |-> {"/home", "/etc/shadow"},
   members |-> [n \in MemberNames |->
                  IF n = DataName("/home")
                    THEN TarBlob({[name |-> "u/f", data |-> Txt_cfg, mode |-> Mode644]}, {})
                  ELSE IF n = DataName(ShadowPath)
                    THEN BytesBlob(JoinLines(<< LRoot >>, << "\n" >>))
                  ELSE NoneBlob]]
ArchiveFiles == { AbsentArchive, ForeignArchive, PartialArchive }

\* ------------------------------------------------------------------ state
VARIABLES
  src,        \* the source root
  tgt,        \* the target root
  wfail,      \* target paths whose write raises OSError
  arch,       \* the archive file on disk
  pc,         \* "idle", "loop", "save" or "done"
  op,         \* the operation running or last run
  dry_run,    \* StateManager.dry_run
  idx,        \* index of the next registry component
  data,       \* BackupAdapter._data of the operation's archive adapter
  success,    \* the success flag of the operation
  raised,     \* the exception that ended the operation, "none" if none
  handled,    \* what the special handler returned for the last component
  tgt0,       \* the target root when the operation started
  arch0,      \* the archive file when the operation started
  data0,      \* the entry map before the last component was processed
  captured    \* the entry map handed to the last non-dry-run save_backup

vars == << src, tgt, wfail, arch, pc, op, dry_run, idx, data, success, raised,
           handled, tgt0, arch0, data0, captured >>

NotCaptured == [made |-> FALSE, data |-> EmptyData]

InitRest ==
  /\ pc = "idle"
  /\ op = "none"
  /\ dry_run = FALSE
  /\ idx = 1
  /\ data = EmptyData
  /\ success = TRUE
  /\ raised = "none"
  /\ handled = FALSE
  /\ tgt0 = tgt
  /\ arch0 = arch
  /\ data0 = EmptyData
  /\ captured = NotCaptured

Init ==
  /\ src \in SourceRoots
  /\ tgt \in TargetRoots
  /\ wfail \in WriteFailures
  /\ arch \in ArchiveFiles
  /\ InitRest

\* A fully populated source whose credential file ranges over ShadowTexts.
InitShadow ==
  /\ src \in { MakeRoot(FileNode(Txt_cfg, Mode644), TRUE, SshFull,
                        FileNode(Txt_fs, Mode644), AbsentNode,
                        FileNode(t, Mode640)) : t \in ShadowTexts }
  /\ tgt \in TargetRoots
  /\ wfail = {}
  /\ arch = AbsentArchive
  /\ InitRest

\* ---------------------------------------------------------------- actions
Start(opname, dry, d) ==
  /\ pc = "idle"
  /\ pc' = "loop"
  /\ op' = opname
  /\ dry_run' = dry
  /\ idx' = 1
  /\ data' = d
  /\ data0' = d
  /\ success' = TRUE
  /\ raised' = "none"
  /\ handled' = FALSE
  /\ tgt0' = tgt
  /\ arch0' = arch
  /\ UNCHANGED << src, tgt, wfail, arch, captured >>

StartBackup == \E dry \in BOOLEAN : Start("backup", dry, EmptyData)
StartRestore == \E dry \in BOOLEAN : Start("restore", dry, LoadBackup(arch))
StartMigrate == \E dry \in BOOLEAN : Start("migrate", dry, EmptyData)
StartValidate == \E dry \in BOOLEAN : Start("validate", dry, EmptyData)

\* After the body of component idx: on to the next, to the save, or out.
Advance(r, last) ==
  /\ success' = r.success
  /\ handled' = r.handled
  /\ raised' = r.dest.raised
  /\ idx' = idx + 1
  /\ pc' = IF r.dest.raised # "none" THEN "done"
           ELSE IF idx < NumComponents THEN "loop"
           ELSE last

BackupStep ==
  /\ pc = "loop" /\ op = "backup" /\ idx <= NumComponents
  /\ LET r == BackupComponent(SONIC_STATE_COMPONENTS[idx], FsAdapter(src, {}, dry_run),
                              BkAdapter(data, dry_run), success)
     IN /\ data' = r.dest.data
        /\ data0' = data
        /\ Advance(r, "save")
  /\ UNCHANGED << src, tgt, wfail, arch, op, dry_run, tgt0, arch0, captured >>

SaveStep ==
  /\ pc = "save" /\ op = "backup"
  /\ LET sv == SaveBackup(BkAdapter(data, dry_run), arch)
     IN /\ arch' = sv.file
        /\ raised' = sv.raised
        /\ captured' = IF dry_run THEN captured ELSE [made |-> TRUE, data |-> data]
  /\ pc' = "done"
  /\ UNCHANGED << src, tgt, wfail, op, dry_run, idx, data, success, handled,
                  tgt0, arch0, data0 >>

RestoreStep ==
  /\ pc = "loop" /\ op = "restore" /\ idx <= NumComponents
  /\ LET r == RestoreComponent(SONIC_STATE_COMPONENTS[idx], BkAdapter(data, dry_run),
                               FsAdapter(tgt, wfail, dry_run), success)
     IN /\ tgt' = r.dest.root
        /\ Advance(r, "done")
  /\ UNCHANGED << src, wfail, arch, op, dry_run, data, tgt0, arch0, data0, captured >>

MigrateStep ==
  /\ pc = "loop" /\ op = "migrate" /\ idx <= NumComponents
  /\ LET r == MigrateComponent(SONIC_STATE_COMPONENTS[idx], FsAdapter(src, {}, dry_run),
                               FsAdapter(tgt, wfail, dry_run), success)
     IN /\ tgt' = r.dest.root
        /\ Advance(r, "done")
  /\ UNCHANGED << src, wfail, arch, op, dry_run, data, tgt0, arch0, data0, captured >>

ValidateStep ==
  /\ pc = "loop" /\ op = "validate" /\ idx <= NumComponents
  /\ LET s == ValidateComponent(SONIC_STATE_COMPONENTS[idx], FsAdapter(src, {}, dry_run),
                                success)
     IN Advance([dest |-> FsAdapter(src, {}, dry_run), success |-> s, handled |-> FALSE],
                "done")
  /\ UNCHANGED << src, tgt, wfail, arch, op, dry_run, data, tgt0, arch0, data0, captured >>

\* The operation returns (or its exception leaves it); the manager is idle.
Return ==
  /\ pc = "done"
  /\ pc' = "idle"
  /\ UNCHANGED << src, tgt, wfail, arch, op, dry_run, idx, data, success, raised,
                  handled, tgt0, arch0, data0, captured >>

Next ==
  \/ StartBackup
  \/ StartRestore
  \/ StartMigrate
  \/ StartValidate
  \/ BackupStep
  \/ SaveStep
  \/ RestoreStep
  \/ MigrateStep
  \/ ValidateStep
  \/ Return

Spec == Init /\ [][Next]_vars
SpecShadow == InitShadow /\ [][Next]_vars

\* ============================================================== properties
AdminIdx == CHOOSE i \in 1..NumComponents : SONIC_STATE_COMPONENTS[i].name = "admin_auth"

RequiredPaths ==
  { SONIC_STATE_COMPONENTS[i].path :
      i \in { j \in 1..NumComponents : SONIC_STATE_COMPONENTS[j].required } }

\* No required registry path is absent from the root.
AllRequiredPresent(root) == \A p \in RequiredPaths : FsExists(root, p)

\* The entry (a file's bytes or a directory's tar) is present under the root
\* at path p with the same content.
PresentIn(root, p, blob) ==
  IF blob.kind = "tar"
    THEN /\ p \in root.dirs
         /\ \A e \in blob.files :
              /\ root.files[Join(p, e.name)].present
              /\ root.files[Join(p, e.name)].data = e.data
    ELSE /\ p \in FilePaths
         /\ root.files[p].present
         /\ root.files[p].data = blob.bytes

\* The field of a credential line before its first colon.
RECURSIVE FirstField(_)
FirstField(line) ==
  IF line = <<>> \/ Head(line) = ":" THEN <<>>
  ELSE << Head(line) >> \o FirstField(Tail(line))

AdminName == << "a", "d", "m", "i", "n" >>

\* The lines of the source credential file whose account is the admin account.
SourceShadowLines == SplitLines(src.files[ShadowPath].data)
SourceAdminLines ==
  { i \in 1..Len(SourceShadowLines) : FirstField(SourceShadowLines[i]) = AdminName }

\* C1: after a non-dry-run backup of the source and a restore of that archive
\* into an empty target, every file and directory tree the backup captured
\* (the extracted credential material apart) is under the target with the
\* same content.
C1_RoundTrip ==
  (pc = "done" /\ op = "restore" /\ ~dry_run /\ captured.made /\ tgt0 = EmptyRoot)
    => \A p \in ArchPaths \ {ShadowPath, MetaShadow} :
         captured.data[p].kind # "none" => PresentIn(tgt, p, captured.data[p])

\* C2: backup and migrate return true exactly when no required registry
\* path is absent from the source root.
C2_ResultIffRequiredPresent ==
  (pc = "done" /\ op \in {"backup", "migrate"} /\ raised # "OSError")
    => /\ raised = "none"
       /\ success <=> AllRequiredPresent(src)

C4_DryRun ==
  (pc = "done" /\ dry_run)
    => /\ tgt = tgt0
       /\ arch = arch0
       /\ raised = "none"
       /\ LET o == Outcome(op, FALSE, src, tgt0, {}, arch0)
          IN o.raised = "none" /\ o.success = success

\* C5: a non-dry-run backup writes nothing durable before every component
\* was processed, then saves once, and the saved archive holds every entry
\* that was found, whatever the overall result.
C5_SaveAfterLoop ==
  (op = "backup" /\ ~dry_run)
    => /\ pc \in {"loop", "save"} => arch = arch0
       /\ pc = "done" => /\ raised = "none"
                         /\ arch.exists
                         /\ LoadBackup(arch) = data

\* C6: when the admin-credential handler reports not-handled in backup or
\* migrate, nothing is written for /etc/shadow or meta/shadow.admin.
C6_FallThroughNoOp ==
  (op \in {"backup", "migrate"} /\ idx = AdminIdx + 1 /\ ~handled)
    => /\ op = "backup" => (data[ShadowPath] = NoneBlob /\ data[MetaShadow] = NoneBlob)
       /\ op = "migrate" => /\ tgt.files[ShadowPath] = tgt0.files[ShadowPath]
                            /\ tgt.files[MetaShadow] = tgt0.files[MetaShadow]

\* C7: no failing read or write inside an adapter makes backup, restore or
\* migrate raise.
C7_NoRaiseOnIO ==
  (pc = "done" /\ op \in {"backup", "restore", "migrate"})
    => raised # "OSError"

\* C8: no step of restore creates or changes /etc/shadow or meta/shadow.admin
\* under the target, and the admin_auth step leaves the target and the
\* success flag as they were.
C8_RestoreAdminNoOp ==
  [][ (op = "restore" /\ pc = "loop")
        => /\ tgt'.files[ShadowPath] = tgt0.files[ShadowPath]
           /\ tgt'.files[MetaShadow] = tgt0.files[MetaShadow]
           /\ idx = AdminIdx => (tgt' = tgt /\ success' = success /\ raised' = "none")
    ]_vars

\* C8 witness: a non-dry-run restore passed admin_auth with an archive that
\* holds meta/shadow.admin and a target that has a credential file.
C8_Witness ==
  /\ pc = "done" /\ op = "restore" /\ ~dry_run /\ idx = AdminIdx + 1
  /\ data[MetaShadow].kind = "bytes"
  /\ data[ShadowPath].kind = "bytes"
  /\ tgt0.files[ShadowPath].present
  /\ success

\* C9: after a non-dry-run migrate that returned, every host key file that
\* is non-empty at the source has mode 0600 (private) or 0644 (public) at
\* the target.
C9_HostKeyModes ==
  (pc = "done" /\ op = "migrate" /\ ~dry_run /\ raised = "none")
    => \A i \in 1..Len(KeyLoop) :
         LET p == KeyPath("/etc/ssh", KeyLoop[i].key_type, KeyLoop[i].suffix)
         IN (src.files[p].present /\ Len(src.files[p].data) > 0)
              => /\ tgt.files[p].present
                 /\ tgt.files[p].mode = IF KeyLoop[i].suffix = "" THEN 384 ELSE 420

\* C9 witness: the migrate copied a private key whose source mode was not
\* 0600 over a target key of mode 0444, and a public key of source mode 0600.
C9_Witness ==
  /\ pc = "done" /\ op = "migrate" /\ ~dry_run /\ raised = "none"
  /\ src.files[KeyPath("/etc/ssh", "rsa", "")].present
  /\ src.files[KeyPath("/etc/ssh", "rsa", "")].mode # 384
  /\ src.files[KeyPath("/etc/ssh", "rsa", ".pub")].mode = 384
  /\ tgt0.files[KeyPath("/etc/ssh", "rsa", "")].mode = 292
  /\ tgt.files[KeyPath("/etc/ssh", "rsa", "")].data = Txt_key

\* C10: when exactly one of several lines of the source credential file has
\* admin as its account, the handler reports handled and the destination's
\* meta/shadow.admin holds exactly that line; /etc/shadow is not copied.
C10_AdminLineOnly ==
  (op \in {"backup", "migrate"} /\ idx = AdminIdx + 1
     /\ Len(SourceShadowLines) > 1 /\ Cardinality(SourceAdminLines) = 1)
    => LET line == SourceShadowLines[CHOOSE i \in SourceAdminLines : TRUE]
       IN /\ handled
          /\ op = "backup" => /\ data[MetaShadow] = BytesBlob(line)
                              /\ data[ShadowPath] = NoneBlob
          /\ (op = "migrate" /\ ~dry_run)
               => /\ tgt.files[MetaShadow].present
                  /\ tgt.files[MetaShadow].data = line
                  /\ tgt.files[ShadowPath] = tgt0.files[ShadowPath]

\* C10 witness: the admin line follows an administrator line and is the one
\* written by a non-dry-run migrate.
C10_Witness ==
  /\ op = "migrate" /\ ~dry_run /\ idx = AdminIdx + 1 /\ handled
  /\ SourceShadowLines = << LAdministrator, LAdmin >>
  /\ tgt.files[MetaShadow].data = LAdmin

\* C11: a restore from an archive path that does not exist starts from an
\* empty entry map and an empty manifest, raises nothing, leaves the target
\* root as it was and returns false.
C11_RestoreMissingArchive ==
  (op = "restore" /\ ~arch0.exists)
    => /\ data = EmptyData
       /\ LoadManifest(arch0) = {}
       /\ raised = "none"
       /\ tgt = tgt0
       /\ pc = "done" => (idx = NumComponents + 1 /\ ~success)

\* C11 witness: a non-dry-run restore from a missing archive has returned,
\* over a populated target one of whose paths cannot be written.
C11_Witness ==
  /\ pc = "done" /\ op = "restore" /\ ~dry_run
  /\ ~arch0.exists
  /\ ~success
  /\ tgt0 = PopulatedTarget
  /\ wfail # {}

====
